---- MODULE Spec2Model ----
(***************************************************************************)
(* A model of the structural-equality helpers of ddd-kit-ts:               *)
(*   deepEqual, deepOmit, deepEqualExcept and isBuiltInObject.             *)
(*                                                                         *)
(* The JavaScript heap is a sequence of nodes; a reference is the index of *)
(* a node.  A value is a record [t, v]: t is the kind of the value and v   *)
(* a natural number (the number itself, a function identity, or the index  *)
(* of the node a reference points to).                                     *)
(***************************************************************************)
EXTENDS Integers, Sequences, FiniteSets, TLC

\* Numbers 1..MaxNum occur as primitive leaves of the input graphs.
MaxNum == 2
\* Depth at which the host aborts a recursion (a scaled-down call-stack limit).
MaxStack == 12

---------------------------------------------------------------------------
(* Values *)

Num(n) == [t |-> "number", v |-> n]
NaN == [t |-> "NaN", v |-> 0]
Undefined == [t |-> "undefined", v |-> 0]
Null == [t |-> "null", v |-> 0]
Fn(n) == [t |-> "function", v |-> n]
Ref(n) == [t |-> "ref", v |-> n]

\* typeof value
TypeOf(x) ==
    CASE x.t = "NaN" -> "number"
      [] x.t = "null" -> "object"
      [] x.t = "ref" -> "object"
      [] OTHER -> x.t

\* a === b that holds for identical objects only
StrictEq_ObjectsOnly(a, b) == a = b /\ a.t = "ref"

\* a === b
StrictEq(a, b) == a = b /\ a.t # "NaN"

\* a Number.isNaN that never answers true
NumberIsNaN_Never(x) == FALSE

\* Number.isNaN(x)
NumberIsNaN(x) == x.t = "NaN"

\* SameValueZero, the key identity of Map.has / Set.has
SameValueZero(a, b) == a = b

---------------------------------------------------------------------------
(* Heap nodes.  keys/vals are the own enumerable properties in creation    *)
(* order (a symbol key is a string starting with "@"); an array keeps its  *)
(* elements in vals; a Map keeps its entries in mkeys/vals and a Set its   *)
(* elements in mkeys; data is the time of a Date, the source and flags of  *)
(* a RegExp or the boxed primitive; a view keeps its bytes/elements in     *)
(* vals.                                                                   *)

TagArray == "[object Array]"
TagObject == "[object Object]"
TagMap == "[object Map]"
TagSet == "[object Set]"
TagDate == "[object Date]"
TagRegExp == "[object RegExp]"
TagUint8Array == "[object Uint8Array]"
TagDataView == "[object DataView]"
TagError == "[object Error]"

MkNode(tag, proto, keys, mkeys, vals, data) ==
    [tag |-> tag, proto |-> proto, keys |-> keys, mkeys |-> mkeys,
     vals |-> vals, data |-> data]

ArrayNode(elems) == MkNode(TagArray, "Array.prototype", <<>>, <<>>, elems, 0)
ObjectNode(keys, vals) == MkNode(TagObject, "Object.prototype", keys, <<>>, vals, 0)
DateNode(time) == MkNode(TagDate, "Date.prototype", <<>>, <<>>, <<>>, time)
MapNode(mkeys, vals) == MkNode(TagMap, "Map.prototype", <<>>, mkeys, vals, 0)

IsSymbol(k) == k \in {"@s"}

Range(s) == {s[i] : i \in 1..Len(s)}

\* Object.keys(obj)
ObjectKeys(node) == SelectSeq(node.keys, LAMBDA k : ~IsSymbol(k))
\* Object.getOwnPropertySymbols(obj)
GetOwnPropertySymbols(node) == SelectSeq(node.keys, LAMBDA k : IsSymbol(k))
\* Object.prototype.hasOwnProperty.call(obj, key)
HasOwn(node, k) == k \in Range(node.keys)
\* obj[key]
GetProp(node, k) ==
    IF HasOwn(node, k)
    THEN node.vals[CHOOSE i \in 1..Len(node.keys) : node.keys[i] = k]
    ELSE Undefined

\* ArrayBuffer.isView(obj)
IsView(node) == node.tag \in {TagUint8Array, TagDataView}

\* tag.endsWith("Array]")
EndsWithArray(tag) == tag \in {TagArray, TagUint8Array}

\* the prototypes whose constructor is the global of the same name
GlobalPrototypes ==
    {"Object.prototype", "Array.prototype", "Map.prototype", "Set.prototype",
     "Date.prototype", "RegExp.prototype", "Uint8Array.prototype",
     "DataView.prototype", "Error.prototype"}

\* prototypes that are not built in: an object literal used as a prototype
\* (it has no constructor of its own), and the prototype of a user-defined
\* class that is named Map
PlainPrototype == "a plain object"
UserMapPrototype == "class Map.prototype"

\* obj.constructor is a function and globalThis[obj.constructor.name] is that
\* function: obj.constructor is looked up on the prototype chain, so below an
\* object literal it is the global Object
HasGlobalConstructor(node) ==
    node.proto \in GlobalPrototypes \cup {PlainPrototype}

knownBuiltInTags ==
    {TagDate, TagRegExp, TagMap, TagSet, "[object WeakMap]", "[object WeakSet]",
     "[object Promise]", TagError, "[object Boolean]", "[object Number]",
     "[object String]"}

\* isBuiltInObject that knows the typed arrays and views only
isBuiltInObject_ViewsOnly(node, tag) ==
    EndsWithArray(tag) \/ IsView(node)

isBuiltInObject(node, tag) ==
    IF EndsWithArray(tag) THEN TRUE
    ELSE IF IsView(node) THEN TRUE
    ELSE IF tag \in {"[object ArrayBuffer]", "[object SharedArrayBuffer]"} THEN TRUE
    ELSE IF /\ HasGlobalConstructor(node)
            /\ node.proto # "Object.prototype"
            /\ node.proto # "null"
         THEN TRUE
    ELSE tag \in knownBuiltInTags

---------------------------------------------------------------------------
(* deepEqual.  The traversal state st carries the visited map, the log of  *)
(* the visited-map events and the flag of an aborted recursion.            *)

Ev(ev, a, b, c, r) == [ev |-> ev, a |-> a, b |-> b, c |-> c, r |-> r]

EqStart == [eq |-> FALSE, visited |-> <<>>, log |-> <<>>, overflow |-> FALSE]

\* visited.set(objA, objB)
VisitedSet(visited, objA, objB) ==
    [n \in DOMAIN visited \cup {objA} |->
        IF n = objA THEN objB ELSE visited[n]]

RECURSIVE deepEqualInner(_, _, _, _, _)
RECURSIVE eqArrayLoop(_, _, _, _, _, _)
RECURSIVE eqMapLoop(_, _, _, _, _, _)
RECURSIVE eqKeysLoop(_, _, _, _, _, _, _)

\* some index i has arrA[i] !== arrB[i]
ElementsDiffer(nodeA, nodeB) ==
    \E i \in 1..Len(nodeA.vals) : ~StrictEq(nodeA.vals[i], nodeB.vals[i])

\* for (let i = 0; i < len; i++) if (!deepEqualInner(arrA[i], arrB[i], visited)) return false
eqArrayLoop(h, objA, objB, i, st, depth) ==
    IF i > Len(h[objA].vals) THEN [st EXCEPT !.eq = TRUE]
    ELSE LET r == deepEqualInner(h, h[objA].vals[i], h[objB].vals[i], st, depth + 1)
         IN  IF r.overflow \/ ~r.eq THEN r
             ELSE eqArrayLoop(h, objA, objB, i + 1, r, depth)

\* for (const [key, valA] of mapA) ...
eqMapLoop(h, objA, objB, i, st, depth) ==
    IF i > Len(h[objA].mkeys) THEN [st EXCEPT !.eq = TRUE]
    ELSE LET key == h[objA].mkeys[i]
             nodeB == h[objB]
             hits == {j \in 1..Len(nodeB.mkeys) : SameValueZero(nodeB.mkeys[j], key)}
         IN  IF hits = {} THEN [st EXCEPT !.eq = FALSE]
             ELSE LET valB == nodeB.vals[CHOOSE j \in hits : TRUE]
                      r == deepEqualInner(h, h[objA].vals[i], valB, st, depth + 1)
                  IN  IF r.overflow \/ ~r.eq THEN r
                      ELSE eqMapLoop(h, objA, objB, i + 1, r, depth)

\* for (const key of keys) if (!deepEqualInner(objA[key], objB[key], visited)) return false
eqKeysLoop(h, objA, objB, keys, i, st, depth) ==
    IF i > Len(keys) THEN [st EXCEPT !.eq = TRUE]
    ELSE LET r == deepEqualInner(h, GetProp(h[objA], keys[i]),
                                 GetProp(h[objB], keys[i]), st, depth + 1)
         IN  IF r.overflow \/ ~r.eq THEN r
             ELSE eqKeysLoop(h, objA, objB, keys, i + 1, r, depth)

\* ownKeysDiffer that compares the numbers of keys only
ownKeysDiffer_CountsOnly(nodeA, nodeB) ==
    \/ Len(ObjectKeys(nodeA)) # Len(ObjectKeys(nodeB))
    \/ Len(GetOwnPropertySymbols(nodeA)) # Len(GetOwnPropertySymbols(nodeB))

\* the key tests of the plain-object branch: the numbers of string keys and of
\* symbol keys, then every key of the left is an own key of the right
ownKeysDiffer(nodeA, nodeB) ==
    LET stringKeysA == ObjectKeys(nodeA)
        stringKeysB == ObjectKeys(nodeB)
        symbolKeysA == GetOwnPropertySymbols(nodeA)
        symbolKeysB == GetOwnPropertySymbols(nodeB)
    IN  \/ Len(stringKeysA) # Len(stringKeysB)
        \/ Len(symbolKeysA) # Len(symbolKeysB)
        \/ \E i \in 1..Len(stringKeysA) : ~HasOwn(nodeB, stringKeysA[i])
        \/ \E i \in 1..Len(symbolKeysA) : symbolKeysA[i] \notin Range(symbolKeysB)

\* steps 4-7 of deepEqualInner: both operands are distinct, unvisited objects
eqDispatch(h, objA, objB, st, depth) ==
    LET nodeA == h[objA]
        nodeB == h[objB]
        tagA == nodeA.tag
        tagB == nodeB.tag
    IN
    IF IsView(nodeA) \/ IsView(nodeB) THEN
        IF ~IsView(nodeA) \/ ~IsView(nodeB) THEN [st EXCEPT !.eq = FALSE]
        ELSE IF tagA # tagB THEN [st EXCEPT !.eq = FALSE]
        ELSE IF Len(nodeA.vals) # Len(nodeB.vals) THEN [st EXCEPT !.eq = FALSE]
        ELSE [st EXCEPT !.eq = ~ElementsDiffer(nodeA, nodeB)]
    ELSE IF tagA # tagB THEN [st EXCEPT !.eq = FALSE]
    ELSE IF tagA = TagArray THEN
        IF Len(nodeA.vals) # Len(nodeB.vals) THEN [st EXCEPT !.eq = FALSE]
        ELSE eqArrayLoop(h, objA, objB, 1, st, depth)
    ELSE IF tagA = TagMap THEN
        IF Len(nodeA.mkeys) # Len(nodeB.mkeys) THEN [st EXCEPT !.eq = FALSE]
        ELSE eqMapLoop(h, objA, objB, 1, st, depth)
    ELSE IF tagA = TagSet THEN
        IF Len(nodeA.mkeys) # Len(nodeB.mkeys) THEN [st EXCEPT !.eq = FALSE]
        ELSE [st EXCEPT !.eq = \A i \in 1..Len(nodeA.mkeys) :
                \E j \in 1..Len(nodeB.mkeys) :
                    SameValueZero(nodeB.mkeys[j], nodeA.mkeys[i])]
    ELSE IF tagA = TagDate THEN [st EXCEPT !.eq = (nodeA.data = nodeB.data)]
    ELSE IF tagA = TagRegExp THEN [st EXCEPT !.eq = (nodeA.data = nodeB.data)]
    ELSE IF tagA \in {"[object Boolean]", "[object Number]", "[object String]"} THEN
        [st EXCEPT !.eq = (nodeA.data = nodeB.data)]
    ELSE IF isBuiltInObject(nodeA, tagA) /\ isBuiltInObject(nodeB, tagB) THEN
        [st EXCEPT !.eq = (objA = objB)]
    ELSE
        LET stringKeysA == ObjectKeys(nodeA)
            symbolKeysA == GetOwnPropertySymbols(nodeA)
        IN
        IF ownKeysDiffer(nodeA, nodeB) THEN [st EXCEPT !.eq = FALSE]
        ELSE LET r == eqKeysLoop(h, objA, objB, stringKeysA, 1, st, depth)
             IN  IF r.overflow \/ ~r.eq THEN r
                 ELSE eqKeysLoop(h, objA, objB, symbolKeysA, 1, r, depth)

\* step 1 of deepEqualInner: a === b (logged when the operands are objects)
eqFastPath(st, a, b) ==
    IF a.t = "ref"
    THEN [st EXCEPT !.eq = TRUE, !.log = Append(@, Ev("fast", a.v, b.v, 0, TRUE))]
    ELSE [st EXCEPT !.eq = TRUE]

\* eqCacheHit that takes every left object seen before as equal
eqCacheHit_AlwaysEqual(st, objA, objB) ==
    [st EXCEPT !.eq = TRUE,
               !.log = Append(@, Ev("hit", objA, objB, st.visited[objA], TRUE))]

\* step 3 of deepEqualInner with a left object seen before: return cached === objB
eqCacheHit(st, objA, objB) ==
    [st EXCEPT !.eq = (st.visited[objA] = objB),
               !.log = Append(@, Ev("hit", objA, objB, st.visited[objA],
                                    st.visited[objA] = objB))]

\* eqRecord without the visited.set: the pair is never recorded
eqRecord_NotRecorded(st, objA, objB) ==
    [st EXCEPT !.log = Append(@, Ev("set", objA, objB, 0, TRUE))]

\* step 3 of deepEqualInner with a new left object: visited.set(objA, objB)
eqRecord(st, objA, objB) ==
    [st EXCEPT !.visited = VisitedSet(@, objA, objB),
               !.log = Append(@, Ev("set", objA, objB, 0, TRUE))]

deepEqualInner(h, a, b, st, depth) ==
    IF depth > MaxStack THEN [st EXCEPT !.eq = FALSE, !.overflow = TRUE]
    ELSE IF StrictEq(a, b) THEN eqFastPath(st, a, b)
    ELSE IF TypeOf(a) # "object" \/ a = Null \/ TypeOf(b) # "object" \/ b = Null THEN
        IF TypeOf(a) = "number" /\ TypeOf(b) = "number"
        THEN [st EXCEPT !.eq = NumberIsNaN(a) /\ NumberIsNaN(b)]
        ELSE [st EXCEPT !.eq = FALSE]
    ELSE LET objA == a.v
             objB == b.v
         IN  IF objA \in DOMAIN st.visited THEN eqCacheHit(st, objA, objB)
             ELSE eqDispatch(h, objA, objB, eqRecord(st, objA, objB), depth)

deepEqualRun(h, a, b) == deepEqualInner(h, a, b, EqStart, 1)

deepEqual(h, a, b) == deepEqualRun(h, a, b).eq

---------------------------------------------------------------------------
(* deepOmit.  options is [ignoreKeys, ignoreKeyPredicate]: a set of keys   *)
(* and the name of a predicate ("none" when the option is absent).  A path *)
(* segment is a string: a property key, or "#i" for the array index i.     *)

IndexSegments == <<"#0", "#1", "#2", "#3">>
IndexSegment(i) == IndexSegments[i + 1]

Last(s) == s[Len(s)]
\* a path.pop() that was left out
Pop_LeftOut(s) == s
\* path.pop()
Pop(s) == SubSeq(s, 1, Len(s) - 1)

\* the ignoreKeyPredicate functions a caller passes
Predicates ==
    {"none", "idUnderSelf", "atDepthOne", "idAnywhere", "throwsBelowRoot", "reentrant"}

\* the value a call has when it returned none
NoValue == [t |-> "none", v |-> 0]
\* the Error the predicate "throwsBelowRoot" throws; "none" is no exception
PredicateError == "PredicateError"
NoException == "none"

\* the predicate throws: "throwsBelowRoot" does for every key below the root
predicateThrows(name, key, path) == name = "throwsBelowRoot" /\ Len(path) > 0

\* options.ignoreKeyPredicate(key, path)
ignoreKeyPredicate(name, key, path) ==
    CASE name = "idUnderSelf" -> key = "id" /\ Len(path) > 0 /\ Last(path) = "self"
      [] name = "atDepthOne" -> Len(path) = 1
      [] name = "idAnywhere" -> key = "id"
      [] name = "reentrant" -> key = "id"
      [] OTHER -> FALSE

\* shouldIgnoreKey that applies ignoreKeys to the keys of the root only
shouldIgnoreKey_RootOnly(key, path, options) ==
    IF key \in options.ignoreKeys /\ path = <<>> THEN TRUE
    ELSE IF options.ignoreKeyPredicate # "none"
            /\ ignoreKeyPredicate(options.ignoreKeyPredicate, key, path) THEN TRUE
    ELSE FALSE

\* what shouldIgnoreKey does for one key: the ignoreKeys test, then the predicate
shouldIgnoreKey(key, path, options) ==
    IF key \in options.ignoreKeys THEN TRUE
    ELSE IF options.ignoreKeyPredicate # "none"
            /\ ignoreKeyPredicate(options.ignoreKeyPredicate, key, path) THEN TRUE
    ELSE FALSE

\* the predicate is reached only when ignoreKeys did not already decide
PredicateCalled(key, options) ==
    key \notin options.ignoreKeys /\ options.ignoreKeyPredicate # "none"

\* a shouldIgnoreKey that catches what the predicate throws
shouldIgnoreKeyThrows_Caught(key, path, options) == FALSE

\* shouldIgnoreKey has no try/catch: what the predicate throws leaves it
shouldIgnoreKeyThrows(key, path, options) ==
    PredicateCalled(key, options)
        /\ predicateThrows(options.ignoreKeyPredicate, key, path)

\* thrown: the exception that ended the run; nested: the calls the predicate made
OmitStart(h) ==
    [heap |-> h, visited |-> <<>>, path |-> <<>>, plog |-> <<>>,
     res |-> Undefined, overflow |-> FALSE, thrown |-> NoException, nested |-> <<>>]

\* the run was ended by an exception (a RangeError of the stack or a thrown one)
Aborted(st) == st.overflow \/ st.thrown # NoException

\* new Array(length)
NewArray(len) == ArrayNode([i \in 1..len |-> Undefined])
\* a clone made as the literal {}
ObjectCreate_Literal(proto) == MkNode(TagObject, "Object.prototype", <<>>, <<>>, <<>>, 0)

\* Object.create(Object.getPrototypeOf(obj))
ObjectCreate(proto) == MkNode(TagObject, proto, <<>>, <<>>, <<>>, 0)

\* clone[i] = value
SetElement(heap, clone, i, value) ==
    [heap EXCEPT ![clone].vals[i] = value]
\* clone[key] = value
SetProp(heap, clone, key, value) ==
    [heap EXCEPT ![clone].keys = Append(@, key), ![clone].vals = Append(@, value)]

RECURSIVE omitInternal(_, _, _, _)
RECURSIVE predicateCalls(_, _, _)
RECURSIVE omitArrayLoop(_, _, _, _, _, _)
RECURSIVE omitKeysLoop(_, _, _, _, _, _, _)

\* for (let i = 0; i < arr.length; i++) { path.push(i); clone[i] = ...; path.pop(); }
omitArrayLoop(obj, clone, i, options, st, depth) ==
    IF i > Len(st.heap[obj].vals) THEN st
    ELSE LET pushed == [st EXCEPT !.path = Append(@, IndexSegment(i - 1))]
             r == omitInternal(st.heap[obj].vals[i], options, pushed, depth + 1)
         IN  IF Aborted(r) THEN r
             ELSE omitArrayLoop(obj, clone, i + 1, options,
                      [r EXCEPT !.heap = SetElement(@, clone, i, r.res),
                                !.path = Pop(@)],
                      depth)

\* for (const key of keys) { if (shouldIgnoreKey(...)) continue; push; clone[key] = ...; pop }
omitKeysLoop(obj, clone, keys, i, options, st, depth) ==
    IF i > Len(keys) THEN st
    ELSE LET key == keys[i]
             entered == predicateCalls(key, options, st)
             threw == shouldIgnoreKeyThrows(key, st.path, options)
             ignore == ~threw /\ shouldIgnoreKey(key, st.path, options)
             logged == [entered EXCEPT !.plog = Append(@,
                           [obj |-> obj, key |-> key, path |-> st.path,
                            called |-> PredicateCalled(key, options),
                            ignore |-> ignore, threw |-> threw])]
         IN  IF threw THEN [logged EXCEPT !.thrown = PredicateError, !.res = NoValue]
             ELSE IF ignore
             THEN omitKeysLoop(obj, clone, keys, i + 1, options, logged, depth)
             ELSE LET pushed == [logged EXCEPT !.path = Append(@, key)]
                      r == omitInternal(GetProp(st.heap[obj], key), options,
                                        pushed, depth + 1)
                  IN  IF Aborted(r) THEN r
                      ELSE omitKeysLoop(obj, clone, keys, i + 1, options,
                               [r EXCEPT !.heap = SetProp(@, clone, key, r.res),
                                         !.path = Pop(@)],
                               depth)

\* omitArray that copies the elements by reference (a shallow copy)
omitArray_Shallow(obj, options, st, depth) ==
    LET clone == Len(st.heap) + 1
    IN  [st EXCEPT !.heap = Append(@, ArrayNode(st.heap[obj].vals)),
                   !.visited = VisitedSet(@, obj, clone),
                   !.res = Ref(clone)]

\* the array branch: allocate the clone, register it, then copy the elements
omitArray(obj, options, st, depth) ==
    LET clone == Len(st.heap) + 1
        st1 == [st EXCEPT !.heap = Append(@, NewArray(Len(st.heap[obj].vals))),
                          !.visited = VisitedSet(@, obj, clone)]
        r == omitArrayLoop(obj, clone, 1, options, st1, depth)
    IN  IF Aborted(r) THEN r ELSE [r EXCEPT !.res = Ref(clone)]

\* omitObject that registers the clone only after its children were copied
omitObject_RegisterLate(obj, options, st, depth) ==
    LET clone == Len(st.heap) + 1
        node == st.heap[obj]
        st1 == [st EXCEPT !.heap = Append(@, ObjectCreate(node.proto))]
        keys == ObjectKeys(node) \o GetOwnPropertySymbols(node)
        r == omitKeysLoop(obj, clone, keys, 1, options, st1, depth)
    IN  IF Aborted(r) THEN r
        ELSE [r EXCEPT !.visited = VisitedSet(@, obj, clone), !.res = Ref(clone)]

\* omitObject that filters the source object in place instead of a clone
omitObject_InPlace(obj, options, st, depth) ==
    LET node == st.heap[obj]
        st1 == [st EXCEPT !.visited = VisitedSet(@, obj, obj)]
        keys == ObjectKeys(node) \o GetOwnPropertySymbols(node)
        r == omitKeysLoop(obj, obj, keys, 1, options, st1, depth)
    IN  IF Aborted(r) THEN r ELSE [r EXCEPT !.res = Ref(obj)]

\* the plain-object branch: allocate the clone, register it, then copy the kept keys
omitObject(obj, options, st, depth) ==
    LET clone == Len(st.heap) + 1
        node == st.heap[obj]
        st1 == [st EXCEPT !.heap = Append(@, ObjectCreate(node.proto)),
                          !.visited = VisitedSet(@, obj, clone)]
        keys == ObjectKeys(node) \o GetOwnPropertySymbols(node)
        r == omitKeysLoop(obj, clone, keys, 1, options, st1, depth)
    IN  IF Aborted(r) THEN r ELSE [r EXCEPT !.res = Ref(clone)]

omitInternal(value, options, st, depth) ==
    IF depth > MaxStack THEN [st EXCEPT !.overflow = TRUE, !.res = NoValue]
    ELSE IF value = Null THEN [st EXCEPT !.res = value]
    ELSE IF TypeOf(value) # "object" THEN [st EXCEPT !.res = value]
    ELSE LET obj == value.v
             tag == st.heap[obj].tag
         IN  IF obj \in DOMAIN st.visited THEN [st EXCEPT !.res = Ref(st.visited[obj])]
             ELSE IF tag = TagArray THEN omitArray(obj, options, st, depth)
             ELSE IF isBuiltInObject(st.heap[obj], tag) THEN [st EXCEPT !.res = value]
             ELSE omitObject(obj, options, st, depth)

deepOmit(h, value, options) == omitInternal(value, options, OmitStart(h), 1)

\* the options of the deepOmit call the predicate "reentrant" makes
NestedOptions == [ignoreKeys |-> {"id"}, ignoreKeyPredicate |-> "none"]

\* a deepOmit call that works on the visited map and the path of the call
\* that is running
deepOmitWithin_SharedState(st, value, options) ==
    omitInternal(value, options, st, 1)

\* a deepOmit call made while the call with state st is running: it has a
\* visited map and a path of its own, and allocates in the same heap
deepOmitWithin(st, value, options) == deepOmit(st.heap, value, options)

\* what the predicate does besides answering: "reentrant" calls deepOmit on
\* a value the program holds (node 1); the running call goes on with its own
\* visited map and path
predicateCalls(key, options, st) ==
    IF ~(PredicateCalled(key, options) /\ options.ignoreKeyPredicate = "reentrant")
    THEN st
    ELSE LET r == deepOmitWithin(st, Ref(1), NestedOptions)
         IN  [st EXCEPT !.heap = r.heap,
                        !.nested = Append(@,
                            [base |-> Len(st.heap), top |-> Len(r.heap),
                             res |-> r.res, visited |-> r.visited,
                             plog |-> r.plog, thrown |-> r.thrown])]

---------------------------------------------------------------------------
(* deepEqualExcept: two prunings, each with its own visited map and path,  *)
(* then deepEqual of the two pruned values in the heap that holds both.    *)

\* a step that is not reached, because an earlier one threw, is left at its start
deepEqualExceptRun(h, a, b, options) ==
    LET prunedA == deepOmit(h, a, options)
        prunedB == IF Aborted(prunedA) THEN OmitStart(prunedA.heap)
                   ELSE deepOmit(prunedA.heap, b, options)
        cmp == IF Aborted(prunedA) \/ Aborted(prunedB) THEN EqStart
               ELSE deepEqualRun(prunedB.heap, prunedA.res, prunedB.res)
    IN  [prunedA |-> prunedA, prunedB |-> prunedB, cmp |-> cmp,
         eq |-> cmp.eq,
         overflow |-> prunedA.overflow \/ prunedB.overflow \/ cmp.overflow,
         thrown |-> IF prunedA.thrown # NoException THEN prunedA.thrown
                    ELSE prunedB.thrown]

deepEqualExcept(h, a, b, options) == deepEqualExceptRun(h, a, b, options).eq

---------------------------------------------------------------------------
(* The program: a heap of input values, then one call of one of the three  *)
(* functions on it.                                                        *)

\* heap: the heap now; input: the heap before the call; call: the call made;
\* out: what the call returned, with its traversal state
VARIABLES heap, input, pc, call, out,
          aggregate, aggCall, aggTrace,
          bus, subs, published

\* the variables of the aggregate and of the event bus
aggVars == <<aggregate, aggCall, aggTrace>>
busVars == <<bus, subs, published>>

vars == <<heap, input, pc, call, out, aggVars, busVars>>

\* no aggregate and no event bus was constructed
Unused == "unused"
NoAggregate == aggregate = Unused /\ aggCall = Unused /\ aggTrace = Unused
NoBus == bus = Unused /\ subs = Unused /\ published = Unused

Nums == 1..MaxNum

\* the strings "id" and "part" as values (Map keys)
StrId == [t |-> "string", v |-> 1]
StrPart == [t |-> "string", v |-> 2]

LeafKinds == {"array", "object", "symbol", "date", "map", "back"}

\* a small node: n is the number it holds or the root it points back to
Leaf(kind, n) ==
    CASE kind = "array" -> ArrayNode(<<>>)
      [] kind = "object" -> ObjectNode(<<"id">>, <<Num(n)>>)
      [] kind = "symbol" -> ObjectNode(<<"@s", "id">>, <<Num(n), Num(1)>>)
      [] kind = "date" -> DateNode(n)
      [] kind = "map" -> MapNode(<<StrId, StrPart>>, <<Num(n), Ref(5)>>)
      [] OTHER -> ObjectNode(<<"self">>, <<Ref(n)>>)

\* a node with two children: [x, y] or {self: x, id: y}
Root(kind, x, y) ==
    IF kind = "array" THEN ArrayNode(<<x, y>>)
    ELSE ObjectNode(<<"self", "id">>, <<x, y>>)

\* nodes 1 and 2 are the two values compared, nodes 3 to 5 their parts
InitHeaps ==
    {<<Root(k, x1, y1), Root(k, x2, y2), Leaf(k3, 1), Leaf(k4, n4), Leaf(k3, 1)>> :
        k \in {"array", "object"},
        x1 \in {Ref(1), Ref(3)},
        y1 \in {Ref(3), Ref(4), Num(1)},
        x2 \in {Ref(1), Ref(2), Ref(3), Ref(4)},
        y2 \in {Ref(3), Ref(4), Ref(5)} \cup {Num(n) : n \in Nums},
        k3 \in LeafKinds, k4 \in LeafKinds, n4 \in Nums}

Args == {Ref(1), Ref(2)}
ArgPairs == {<<Ref(1), Ref(2)>>, <<Ref(2), Ref(1)>>, <<Ref(1), Ref(1)>>}

MkOptions(keys, pred) == [ignoreKeys |-> keys, ignoreKeyPredicate |-> pred]
NoOptions == MkOptions({}, "none")
OptionSets ==
    {NoOptions, MkOptions({"id", "@s"}, "none"), MkOptions({}, "idUnderSelf"),
     MkOptions({"id"}, "atDepthOne")}

MkCall(op, a, b, options) == [op |-> op, a |-> a, b |-> b, options |-> options]

Init ==
    /\ heap \in InitHeaps
    /\ input = heap
    /\ pc = "ready"
    /\ call = MkCall("none", Undefined, Undefined, NoOptions)
    /\ out = EqStart
    /\ NoAggregate
    /\ NoBus

CallDeepEqual ==
    /\ pc = "ready"
    /\ \E p \in ArgPairs :
        /\ call' = MkCall("deepEqual", p[1], p[2], NoOptions)
        /\ out' = deepEqualRun(heap, p[1], p[2])
    /\ heap' = heap
    /\ input' = input
    /\ pc' = "done"
    /\ UNCHANGED <<aggVars, busVars>>

CallDeepOmit ==
    /\ pc = "ready"
    /\ \E x \in Args, o \in OptionSets :
        /\ call' = MkCall("deepOmit", x, Undefined, o)
        /\ out' = deepOmit(heap, x, o)
    /\ heap' = out'.heap
    /\ input' = input
    /\ pc' = "done"
    /\ UNCHANGED <<aggVars, busVars>>

CallDeepEqualExcept ==
    /\ pc = "ready"
    /\ \E p \in ArgPairs, o \in OptionSets :
        /\ call' = MkCall("deepEqualExcept", p[1], p[2], o)
        /\ out' = deepEqualExceptRun(heap, p[1], p[2], o)
    /\ heap' = out'.prunedB.heap
    /\ input' = input
    /\ pc' = "done"
    /\ UNCHANGED <<aggVars, busVars>>

Next == CallDeepEqual \/ CallDeepOmit \/ CallDeepEqualExcept

Spec == Init /\ [][Next]_vars

---------------------------------------------------------------------------
(* A second family of inputs, one value of each kind the functions tell    *)
(* apart, and the calls made on it with any two values, primitives         *)
(* included.                                                               *)

TagArrayBuffer == "[object ArrayBuffer]"

SetNode(elems) == MkNode(TagSet, "Set.prototype", <<>>, elems, <<>>, 0)
\* const e = new Error(); e[key] = value
ErrorNode(keys, vals) == MkNode(TagError, "Error.prototype", keys, <<>>, vals, 0)
ArrayBufferNode == MkNode(TagArrayBuffer, "ArrayBuffer.prototype", <<>>, <<>>, <<>>, 0)
\* Object.create(proto) with own properties: proto is "null", a class
\* prototype or a plain object
ObjectWithProto(proto, keys, vals) == MkNode(TagObject, proto, keys, <<>>, vals, 0)

Kinds ==
    {"mapK3", "mapK4", "mapK34", "mapK43", "mapV3", "mapV4", "mapV33", "mapV45",
     "set3", "set4", "set34", "set43",
     "objAB", "objBA", "objA", "objAU", "objAV", "objAS",
     "nullAB", "fooAB", "userMapAB", "createdAB", "loop", "other", "error", "buffer", "arr3", "arr4", "date"}

\* the value of a kind; self is the index of the node itself
Kind(kind, self) ==
    CASE kind = "mapK3" -> MapNode(<<Ref(3)>>, <<Num(1)>>)
      [] kind = "mapK4" -> MapNode(<<Ref(4)>>, <<Num(1)>>)
      [] kind = "mapK34" -> MapNode(<<Ref(3), Ref(4)>>, <<Num(1), Num(2)>>)
      [] kind = "mapK43" -> MapNode(<<Ref(4), Ref(3)>>, <<Num(2), Num(1)>>)
      [] kind = "mapV3" -> MapNode(<<StrId>>, <<Ref(3)>>)
      [] kind = "mapV4" -> MapNode(<<StrId>>, <<Ref(4)>>)
      [] kind = "mapV33" -> MapNode(<<StrId, StrPart>>, <<Ref(3), Ref(3)>>)
      [] kind = "mapV45" -> MapNode(<<StrId, StrPart>>, <<Ref(4), Ref(5)>>)
      [] kind = "set3" -> SetNode(<<Ref(3)>>)
      [] kind = "set4" -> SetNode(<<Ref(4)>>)
      [] kind = "set34" -> SetNode(<<Ref(3), Ref(4)>>)
      [] kind = "set43" -> SetNode(<<Ref(4), Ref(3)>>)
      [] kind = "objAB" -> ObjectNode(<<"id", "part">>, <<Num(1), Ref(3)>>)
      [] kind = "objBA" -> ObjectNode(<<"part", "id">>, <<Ref(3), Num(1)>>)
      [] kind = "objA" -> ObjectNode(<<"id">>, <<Num(1)>>)
      [] kind = "objAU" -> ObjectNode(<<"id", "part">>, <<Num(1), Undefined>>)
      [] kind = "objAV" -> ObjectNode(<<"id", "self">>, <<Num(1), Undefined>>)
      [] kind = "objAS" -> ObjectNode(<<"id", "@s">>, <<Num(1), Undefined>>)
      [] kind = "nullAB" -> ObjectWithProto("null", <<"id", "part">>, <<Num(1), Ref(4)>>)
      [] kind = "fooAB" -> ObjectWithProto("Foo.prototype", <<"id", "part">>, <<Num(1), Ref(4)>>)
      [] kind = "userMapAB" -> ObjectWithProto(UserMapPrototype, <<"id", "part">>, <<Num(1), Ref(4)>>)
      [] kind = "createdAB" -> ObjectWithProto(PlainPrototype, <<"id", "part">>, <<Num(1), Ref(4)>>)
      [] kind = "loop" -> ObjectNode(<<"self", "id">>, <<Ref(self), Num(1)>>)
      [] kind = "other" -> ObjectNode(<<"self">>, <<Ref(3 - self)>>)
      [] kind = "error" -> ErrorNode(<<"id">>, <<Num(1)>>)
      [] kind = "buffer" -> ArrayBufferNode
      [] kind = "arr3" -> ArrayNode(<<Ref(3), Num(1)>>)
      [] kind = "arr4" -> ArrayNode(<<Ref(4), Num(1)>>)
      [] OTHER -> DateNode(1)

\* nodes 1 and 2 are values of any kind; nodes 3 to 5 are three distinct
\* objects with the same content: {id: 1}, a null-prototype {id: 1}, {id: 1}
KindHeaps ==
    {<<Kind(k1, 1), Kind(k2, 2),
       ObjectNode(<<"id">>, <<Num(1)>>),
       ObjectWithProto("null", <<"id">>, <<Num(1)>>),
       ObjectNode(<<"id">>, <<Num(1)>>)>> :
        k1 \in Kinds, k2 \in Kinds}

Primitives == {NaN, Num(1), Num(2), Null, Undefined, Fn(1), Fn(2), StrId}
KindValues == {Ref(n) : n \in 1..5} \cup Primitives
KindArgPairs == {<<Ref(1), Ref(2)>>, <<Ref(2), Ref(1)>>, <<Ref(1), Ref(1)>>}

KindOptionSets ==
    {NoOptions, MkOptions({"id"}, "none"), MkOptions({}, "atDepthOne"),
     MkOptions({}, "throwsBelowRoot"), MkOptions({}, "reentrant")}

InitKinds ==
    /\ heap \in KindHeaps
    /\ input = heap
    /\ pc = "ready"
    /\ call = MkCall("none", Undefined, Undefined, NoOptions)
    /\ out = EqStart
    /\ NoAggregate
    /\ NoBus

KindIsBuiltInObject ==
    /\ pc = "ready"
    /\ \E n \in 1..Len(heap) :
        /\ call' = MkCall("isBuiltInObject", Ref(n), Undefined, NoOptions)
        /\ out' = [builtIn |-> isBuiltInObject(heap[n], heap[n].tag)]
    /\ heap' = heap
    /\ input' = input
    /\ pc' = "done"
    /\ UNCHANGED <<aggVars, busVars>>

KindDeepEqual ==
    /\ pc = "ready"
    /\ \E a \in KindValues, b \in KindValues :
        /\ call' = MkCall("deepEqual", a, b, NoOptions)
        /\ out' = deepEqualRun(heap, a, b)
    /\ heap' = heap
    /\ input' = input
    /\ pc' = "done"
    /\ UNCHANGED <<aggVars, busVars>>

KindDeepOmit ==
    /\ pc = "ready"
    /\ \E x \in KindValues, o \in KindOptionSets :
        /\ call' = MkCall("deepOmit", x, Undefined, o)
        /\ out' = deepOmit(heap, x, o)
    /\ heap' = out'.heap
    /\ input' = input
    /\ pc' = "done"
    /\ UNCHANGED <<aggVars, busVars>>

KindDeepEqualExcept ==
    /\ pc = "ready"
    /\ \E p \in KindArgPairs, o \in KindOptionSets :
        /\ call' = MkCall("deepEqualExcept", p[1], p[2], o)
        /\ out' = deepEqualExceptRun(heap, p[1], p[2], o)
    /\ heap' = out'.prunedB.heap
    /\ input' = input
    /\ pc' = "done"
    /\ UNCHANGED <<aggVars, busVars>>

NextKinds ==
    KindIsBuiltInObject \/ KindDeepEqual \/ KindDeepOmit \/ KindDeepEqualExcept

SpecKinds == InitKinds /\ [][NextKinds]_vars

---------------------------------------------------------------------------
\* AggregateEventSourced: an aggregate whose state changes only through
\* events, with the three subclasses of its test suite

MaxHistory == 2
MaxVersion == 3
MaxPending == 2

\* a domain event: its type and what its payload carries
DomainEvent(type, payload) == [type |-> type, payload |-> payload]

\* the events handed to the aggregate; no handler exists for the last type
Events ==
    {DomainEvent("TestEventUpdated", n) : n \in Nums}
        \cup {DomainEvent(t, 0) : t \in {"TestEventActivated", "TestEventInvalid",
                                         "TestEventUnknown"}}

AggregateClasses ==
    {"TestAggregateEventSourced", "ValidatingAggregate", "CustomValidatingAggregate"}

\* the keys of the handlers map of the subclasses
handlers ==
    {"TestEventCreated", "TestEventUpdated", "TestEventActivated",
     "TestEventDeactivated", "TestEventInvalid"}

\* handlers[event.type](state, event)
handler(state, event) ==
    CASE event.type \in {"TestEventCreated", "TestEventUpdated"} ->
            [state EXCEPT !.value = event.payload]
      [] event.type = "TestEventActivated" -> [state EXCEPT !.status = "active"]
      [] event.type = "TestEventDeactivated" -> [state EXCEPT !.status = "inactive"]
      [] OTHER -> state

\* validateEvent: ok(true) unless the subclass overrides it
validateEvent(agg, event) ==
    CASE agg.class = "ValidatingAggregate" -> event.type # "TestEventInvalid"
      [] agg.class = "CustomValidatingAggregate" ->
            ~(event.type = "TestEventActivated" /\ agg.state.status = "active")
      [] OTHER -> TRUE

\* new AggregateEventSourced(id, initialState, config)
NewAggregate(class, autoVersionBump) ==
    [class |-> class,
     state |-> [value |-> 0, status |-> "inactive"],
     version |-> 0,
     pendingEvents |-> <<>>,
     autoVersionBump |-> autoVersionBump]

Ok(agg) == [agg |-> agg, ok |-> TRUE]
Err(agg) == [agg |-> agg, ok |-> FALSE]

\* a recording of new events that bumps the version whatever the configuration
recordNew_AlwaysBumps(agg, event) ==
    [agg EXCEPT !.pendingEvents = Append(@, event), !.version = @ + 1]

\* the isNew branch of apply: the event is pushed and the version bumped
recordNew(agg, event) ==
    LET pushed == [agg EXCEPT !.pendingEvents = Append(@, event)]
    IN  IF agg.autoVersionBump THEN [pushed EXCEPT !.version = @ + 1] ELSE pushed

\* an apply that records a new event before it looks at it
apply_RecordsFirst(agg, event, isNew) ==
    LET recorded == IF isNew THEN recordNew(agg, event) ELSE agg
    IN  IF ~validateEvent(agg, event) THEN Err(recorded)
        ELSE IF event.type \notin handlers THEN Err(recorded)
        ELSE Ok([recorded EXCEPT !.state = handler(@, event)])

\* apply(event, isNew): validation, handler lookup, state change, recording
apply(agg, event, isNew) ==
    IF ~validateEvent(agg, event) THEN Err(agg)
    ELSE IF event.type \notin handlers THEN Err(agg)
    ELSE LET changed == [agg EXCEPT !.state = handler(@, event)]
         IN  Ok(IF isNew THEN recordNew(changed, event) ELSE changed)

\* bumpVersion()
bumpVersion(agg) == [agg EXCEPT !.version = @ + 1]

\* clearPendingEvents()
clearPendingEvents(agg) == [agg EXCEPT !.pendingEvents = <<>>]

RECURSIVE replay(_, _, _)

\* the loop of loadFromHistory: it returns at the first event that fails
replay(agg, history, i) ==
    IF i > Len(history) THEN Ok(agg)
    ELSE LET result == apply(agg, history[i], FALSE)
         IN  IF ~result.ok THEN result ELSE replay(result.agg, history, i + 1)

\* a loadFromHistory that counts the history on top of the version it finds
loadFromHistory_AddsToVersion(agg, history) ==
    LET result == replay(agg, history, 1)
    IN  IF ~result.ok THEN result
        ELSE Ok([result.agg EXCEPT !.version = @ + Len(history)])

\* loadFromHistory(history): replay, then version = history.length
loadFromHistory(agg, history) ==
    LET result == replay(agg, history, 1)
    IN  IF ~result.ok THEN result
        ELSE Ok([result.agg EXCEPT !.version = Len(history)])

Histories == UNION {[1..n -> Events] : n \in 0..MaxHistory}

NoEvent == DomainEvent("none", 0)

\* the call made last: what it was given, the aggregate before it, its result
AggCall(op, event, history, before, ok) ==
    [op |-> op, event |-> event, history |-> history, before |-> before, ok |-> ok]

\* what happened since the aggregate was constructed: the new events applied
\* with success, the manual bumps, and whether a history was loaded
AggTrace(applies, bumps, replayed) ==
    [applies |-> applies, bumps |-> bumps, replayed |-> replayed]

InitAggregate ==
    /\ heap = <<>>
    /\ input = <<>>
    /\ pc = "unused"
    /\ call = MkCall("none", Undefined, Undefined, NoOptions)
    /\ out = EqStart
    /\ NoBus
    /\ \E c \in AggregateClasses, bump \in BOOLEAN :
        aggregate = NewAggregate(c, bump)
    /\ aggCall = AggCall("new", NoEvent, <<>>, aggregate, TRUE)
    /\ aggTrace = AggTrace(0, 0, FALSE)

AggApply ==
    /\ aggregate.version < MaxVersion
    /\ Len(aggregate.pendingEvents) < MaxPending
    /\ aggTrace.applies < MaxVersion
    /\ \E event \in Events :
        LET result == apply(aggregate, event, TRUE)
        IN  /\ aggregate' = result.agg
            /\ aggCall' = AggCall("apply", event, <<>>, aggregate, result.ok)
            /\ aggTrace' = IF result.ok /\ ~aggTrace.replayed
                           THEN [aggTrace EXCEPT !.applies = @ + 1]
                           ELSE aggTrace
    /\ UNCHANGED <<heap, input, pc, call, out, busVars>>

\* a history is loaded into an aggregate once, at any point of its life
AggLoadFromHistory ==
    /\ ~aggTrace.replayed
    /\ \E history \in Histories :
        LET result == loadFromHistory(aggregate, history)
        IN  /\ aggregate' = result.agg
            /\ aggCall' = AggCall("loadFromHistory", NoEvent, history, aggregate, result.ok)
    /\ aggTrace' = AggTrace(0, 0, TRUE)
    /\ UNCHANGED <<heap, input, pc, call, out, busVars>>

AggBumpVersion ==
    /\ aggregate.version < MaxVersion
    /\ aggregate' = bumpVersion(aggregate)
    /\ aggCall' = AggCall("bumpVersion", NoEvent, <<>>, aggregate, TRUE)
    /\ aggTrace' = IF aggTrace.replayed THEN aggTrace
                   ELSE [aggTrace EXCEPT !.bumps = @ + 1]
    /\ UNCHANGED <<heap, input, pc, call, out, busVars>>

AggClearPendingEvents ==
    /\ aggregate' = clearPendingEvents(aggregate)
    /\ aggCall' = AggCall("clearPendingEvents", NoEvent, <<>>, aggregate, TRUE)
    /\ aggTrace' = aggTrace
    /\ UNCHANGED <<heap, input, pc, call, out, busVars>>

NextAggregate ==
    AggApply \/ AggLoadFromHistory \/ AggBumpVersion \/ AggClearPendingEvents

SpecAggregate == InitAggregate /\ [][NextAggregate]_vars

---------------------------------------------------------------------------
\* EventBusImpl: handlers = Map<type, Set<handler>>; every Set is an object
\* of its own, held by the Map and by the unsubscribe functions made for it

MaxHandlers == 2
MaxUnsubscribeCalls == 2
MaxEvents == 2

EventTypes == {"OrderCreated", "OrderShipped"}

\* the handler functions, each a function of its own
Handlers == 1..MaxHandlers

\* handlers.has(type); bus.handlers[type] is the Set the Map holds, 0 for none
MapHas(b, type) == b.handlers[type] # 0

\* new EventBusImpl()
NewBus == [handlers |-> [t \in EventTypes |-> 0], sets |-> <<>>]

\* the function subscribe returns: what it closes over, and the calls made of it
Unsubscribe(type, h, set) == [type |-> type, handler |-> h, set |-> set, calls |-> 0]

\* subscribe(eventType, handler): the Set of the type is made when the Map has
\* none, and the handler added to it
subscribe(b, type, h) ==
    LET made == IF MapHas(b, type) THEN b
                ELSE [b EXCEPT !.sets = Append(@, {}),
                               !.handlers[type] = Len(b.sets) + 1]
        handlersForType == made.handlers[type]
    IN  [bus |-> [made EXCEPT !.sets[handlersForType] = @ \cup {h}],
         unsubscribe |-> Unsubscribe(type, h, handlersForType)]

\* the returned function: the handler leaves the Set the function closed over;
\* when that Set is empty, the entry of the type leaves the Map
unsubscribe(b, u) ==
    LET deleted == [b EXCEPT !.sets[u.set] = @ \ {u.handler}]
    IN  IF deleted.sets[u.set] = {}
        THEN [deleted EXCEPT !.handlers[u.type] = 0]
        ELSE deleted

\* the calls handler(event) made by publish for one event
invokedFor(b, type) == IF MapHas(b, type) THEN b.sets[b.handlers[type]] ELSE {}

RECURSIVE publish(_, _, _, _)

\* publish(events): for each event, every handler of the Set of its type
publish(b, events, i, invoked) ==
    IF i > Len(events) THEN invoked
    ELSE publish(b, events, i + 1,
                 [h \in Handlers |->
                     invoked[h] + (IF h \in invokedFor(b, events[i]) THEN 1 ELSE 0)])

EventLists == UNION {[1..n -> EventTypes] : n \in 1..MaxEvents}

\* the publish made last: its events, the calls each handler received, and
\* the unsubscribe functions as they were when it was made
Published(events, invoked, made) ==
    [events |-> events, invoked |-> invoked, subs |-> made]

NothingInvoked == [h \in Handlers |-> 0]

InitBus ==
    /\ heap = <<>>
    /\ input = <<>>
    /\ pc = "unused"
    /\ call = MkCall("none", Undefined, Undefined, NoOptions)
    /\ out = EqStart
    /\ NoAggregate
    /\ bus = NewBus
    /\ subs = <<>>
    /\ published = Published(<<>>, NothingInvoked, <<>>)

\* a handler function is subscribed once
BusSubscribe ==
    /\ \E type \in EventTypes, h \in Handlers :
        /\ \A i \in 1..Len(subs) : subs[i].handler # h
        /\ LET r == subscribe(bus, type, h)
           IN  /\ bus' = r.bus
               /\ subs' = Append(subs, r.unsubscribe)
    /\ published' = published
    /\ UNCHANGED <<heap, input, pc, call, out, aggVars>>

BusUnsubscribe ==
    /\ \E i \in 1..Len(subs) :
        /\ subs[i].calls < MaxUnsubscribeCalls
        /\ bus' = unsubscribe(bus, subs[i])
        /\ subs' = [subs EXCEPT ![i].calls = @ + 1]
    /\ published' = published
    /\ UNCHANGED <<heap, input, pc, call, out, aggVars>>

BusPublish ==
    /\ \E events \in EventLists :
        published' = Published(events, publish(bus, events, 1, NothingInvoked), subs)
    /\ bus' = bus
    /\ subs' = subs
    /\ UNCHANGED <<heap, input, pc, call, out, aggVars>>

NextBus == BusSubscribe \/ BusUnsubscribe \/ BusPublish

SpecBus == InitBus /\ [][NextBus]_vars

---------------------------------------------------------------------------
(* Vocabulary of the properties: reachability in a heap.                   *)

RefsOf(vs) == {vs[i].v : i \in {j \in 1..Len(vs) : vs[j].t = "ref"}}

IsPlainObject(node) == node.tag # TagArray /\ ~isBuiltInObject(node, node.tag)
IsStructural(node) == node.tag = TagArray \/ IsPlainObject(node)

\* the nodes n refers to: through every reference it holds (all = TRUE), or
\* only through array elements and plain-object properties (all = FALSE)
Kids(h, n, all) ==
    IF all THEN RefsOf(h[n].vals) \cup RefsOf(h[n].mkeys)
    ELSE IF IsStructural(h[n]) THEN RefsOf(h[n].vals)
    ELSE {}

RECURSIVE Grow(_, _, _)
Grow(h, S, all) ==
    LET T == S \cup UNION {Kids(h, n, all) : n \in S}
    IN  IF T = S THEN S ELSE Grow(h, T, all)

ReachFrom(h, v, all) == IF v.t = "ref" THEN Grow(h, {v.v}, all) ELSE {}

OnCycle(h, n) == n \in Grow(h, Kids(h, n, TRUE), TRUE)

Acyclic(h, v) == \A n \in ReachFrom(h, v, TRUE) : ~OnCycle(h, n)

\* the deepEqual run of the call made: the call itself, or the comparison
\* that ends deepEqualExcept
EqRun == IF call.op = "deepEqualExcept" THEN out.cmp ELSE out

SetEvents(log) == {i \in 1..Len(log) : log[i].ev = "set"}

---------------------------------------------------------------------------
(* Properties *)

\* C1: deepEqualExcept(a, b, {}) returns the same boolean as deepEqual(a, b),
\* for all a and b.
C1_EquivalenceLaw ==
    (pc = "done" /\ call.op = "deepEqualExcept" /\ call.options = NoOptions)
        => out.eq = deepEqual(input, call.a, call.b)

\* what element-wise (key-wise) comparison of two nodes of the same kind gives,
\* every pair of children judged as a comparison of its own
Compositional(h, objA, objB) ==
    IF h[objA].tag = TagArray
    THEN /\ Len(h[objA].vals) = Len(h[objB].vals)
         /\ \A i \in 1..Len(h[objA].vals) :
                deepEqual(h, h[objA].vals[i], h[objB].vals[i])
    ELSE /\ Range(h[objA].keys) = Range(h[objB].keys)
         /\ \A k \in Range(h[objA].keys) :
                deepEqual(h, GetProp(h[objA], k), GetProp(h[objB], k))

\* C2: on acyclic inputs, deepEqual of two arrays (two plain objects) is true
\* iff the lengths (the own key sets) agree and deepEqual of every pair of
\* children is true, also when the left value holds one sub-object twice.
C2_Compositional ==
    (/\ pc = "done" /\ call.op = "deepEqual"
     /\ input[call.a.v].tag = input[call.b.v].tag
     /\ IsStructural(input[call.a.v])
     /\ Acyclic(input, call.a) /\ Acyclic(input, call.b))
        => out.eq = Compositional(input, call.a.v, call.b.v)

\* a deepEqual run that ended without exhausting the stack, in which every
\* recorded left object was new and every cache hit met a recorded one
EqLogDisciplined(run) ==
    /\ ~run.overflow
    /\ DOMAIN run.visited = {run.log[i].a : i \in SetEvents(run.log)}
    /\ \A i \in 1..Len(run.log) :
        /\ run.log[i].ev = "set" =>
              \A j \in 1..(i - 1) :
                  ~(run.log[j].ev = "set" /\ run.log[j].a = run.log[i].a)
        /\ run.log[i].ev = "hit" =>
              \E j \in 1..(i - 1) :
                  run.log[j].ev = "set" /\ run.log[j].a = run.log[i].a

\* C3: deepEqual terminates on every pair of finite graphs, cyclic ones
\* included: each recursive call on two objects hits the visited map or
\* records a left object not recorded before.
C3_DeepEqualTerminates ==
    (pc = "done" /\ call.op \in {"deepEqual", "deepEqualExcept"})
        => EqLogDisciplined(EqRun)

\* a comparison of two cyclic values that came back to a recorded pair
C3_Witness ==
    /\ pc = "done" /\ call.op = "deepEqual" /\ out.eq
    /\ \E i \in 1..Len(out.log) :
        out.log[i].ev = "hit" /\ out.log[i].r /\ OnCycle(input, out.log[i].a)

---------------------------------------------------------------------------
(* The deepOmit runs of the call made: the call itself, or the two         *)
(* prunings of deepEqualExcept; before is the heap the run started from.   *)

OmitCase(run, root, before) == [run |-> run, root |-> root, before |-> before]

\* the deepOmit runs of the call made, those ended by a thrown exception too
OmitRuns ==
    CASE call.op = "deepOmit" -> {OmitCase(out, call.a, input)}
      [] call.op = "deepEqualExcept" ->
            {OmitCase(out.prunedA, call.a, input)}
                \cup IF Aborted(out.prunedA) THEN {}
                     ELSE {OmitCase(out.prunedB, call.b, out.prunedA.heap)}
      [] OTHER -> {}

\* those that were not ended by a thrown exception
OmitCases == {c \in OmitRuns : c.run.thrown = NoException}

\* the copy of a value: the clone of a copied node, the value itself otherwise
Image(vis, v) ==
    IF v.t = "ref" /\ v.v \in DOMAIN vis THEN Ref(vis[v.v]) ELSE v

\* a reference to an array or a plain object of heap h
IsStructuralRef(h, v) == v.t = "ref" /\ IsStructural(h[v.v])

\* the copy made by run c.run mirrors the source: one fresh clone per source
\* node met, and every child of a clone is the copy of the source's child
OmitIsomorphic(c) ==
    LET vis == c.run.visited
        h0 == c.before
        h1 == c.run.heap
    IN
    /\ ~c.run.overflow
    /\ c.run.res = Image(vis, c.root)
    /\ IsStructuralRef(h0, c.root) => c.root.v \in DOMAIN vis
    /\ Len(h1) - Len(h0) = Cardinality(DOMAIN vis)
    /\ \A n \in DOMAIN vis : IsStructural(h0[n]) /\ vis[n] > Len(h0)
    /\ \A m, n \in DOMAIN vis : vis[m] = vis[n] => m = n
    /\ \A n \in DOMAIN vis :
        LET src == h0[n]
            cl == h1[vis[n]]
        IN  /\ cl.tag = src.tag
            /\ src.tag = TagArray => Len(cl.vals) = Len(src.vals)
            /\ src.tag = TagArray =>
                  \A i \in 1..Len(src.vals) :
                      /\ cl.vals[i] = Image(vis, src.vals[i])
                      /\ IsStructuralRef(h0, src.vals[i]) => src.vals[i].v \in DOMAIN vis
            /\ src.tag # TagArray =>
                  \A k \in Range(cl.keys) :
                      /\ HasOwn(src, k)
                      /\ GetProp(cl, k) = Image(vis, GetProp(src, k))
                      /\ IsStructuralRef(h0, GetProp(src, k)) =>
                            GetProp(src, k).v \in DOMAIN vis

\* C4: deepOmit terminates on cyclic input and reproduces the cycle: every
\* structural source node met has exactly one clone, and every reference to
\* it, back-references included, becomes a reference to that clone.
C4_CycleReproduced ==
    pc = "done" => \A c \in OmitCases : OmitIsomorphic(c)

\* a = {self: a, id: ...} pruned of "id": the result's self is the result
C4_Witness ==
    /\ pc = "done" /\ call.op = "deepOmit" /\ "id" \in call.options.ignoreKeys
    /\ GetProp(input[call.a.v], "self") = call.a
    /\ HasOwn(input[call.a.v], "id")
    /\ out.res # call.a
    /\ heap[out.res.v].keys = <<"self">>
    /\ GetProp(heap[out.res.v], "self") = out.res

\* C5: deepOmit never writes to its input: after the call every node that
\* existed before it is what it was.
C5_OmitPure ==
    (pc = "done" /\ call.op \in {"deepOmit", "deepEqualExcept"})
        => \A n \in 1..Len(input) : heap[n] = input[n]

\* a pruning of a cyclic input that dropped a key and allocated clones
C5_Witness ==
    /\ pc = "done" /\ call.op = "deepOmit"
    /\ OnCycle(input, call.a.v)
    /\ Len(heap) > Len(input)
    /\ \E i \in 1..Len(out.plog) : out.plog[i].ignore

RECURSIVE Walk(_, _, _)
Walk(h, v, path) ==
    IF path = <<>> THEN v
    ELSE IF v.t # "ref" THEN NoValue
    ELSE LET node == h[v.v]
             seg == Head(path)
             at == {i \in 1..Len(node.vals) : IndexSegment(i - 1) = seg}
         IN  IF node.tag = TagArray
             THEN IF at = {} THEN NoValue
                  ELSE Walk(h, node.vals[CHOOSE i \in at : TRUE], Tail(path))
             ELSE IF HasOwn(node, seg) THEN Walk(h, GetProp(node, seg), Tail(path))
             ELSE NoValue

PathDiscipline(c, options) ==
    /\ c.run.path = <<>>
    /\ \A i \in 1..Len(c.run.plog) :
        LET e == c.run.plog[i]
        IN  /\ e.called => Walk(c.before, c.root, e.path) = Ref(e.obj)
            /\ e.ignore =
                  (\/ e.key \in options.ignoreKeys
                   \/ /\ e.called
                      /\ ignoreKeyPredicate(options.ignoreKeyPredicate, e.key, e.path))
            /\ HasOwn(c.run.heap[c.run.visited[e.obj]], e.key) = ~e.ignore

\* C7: the predicate gets the keys and indices that lead from the root to
\* the node whose key is judged (the key itself not included); the path is
\* restored after each child; a key is copied iff neither rule excludes it.
C7_PredicatePath ==
    pc = "done" => \A c \in OmitCases : PathDiscipline(c, call.options)

\* the predicate fired below the root, and a later key of the root was judged
\* with the empty path again
C7_Witness ==
    /\ pc = "done" /\ call.op = "deepOmit"
    /\ call.options.ignoreKeyPredicate = "idUnderSelf"
    /\ \E i, j \in 1..Len(out.plog) :
        /\ i < j
        /\ out.plog[i].called /\ out.plog[i].path = <<"self">> /\ out.plog[i].ignore
        /\ out.plog[j].called /\ out.plog[j].path = <<>> /\ ~out.plog[j].ignore

\* the children of a node by position: index segments or own keys
Positions(node) ==
    IF node.tag = TagArray THEN {IndexSegment(i - 1) : i \in 1..Len(node.vals)}
    ELSE Range(node.keys)

ChildAt(h, n, pos) == Walk(h, Ref(n), <<pos>>)

IsAtomicRef(h, v) == v.t = "ref" /\ ~IsStructural(h[v.v])

\* atomic values are handed over as they are and never looked into
AtomicPassThrough(c) ==
    LET vis == c.run.visited
        h0 == c.before
        h1 == c.run.heap
    IN
    /\ IsAtomicRef(h0, c.root) => c.run.res = c.root
    /\ \A n \in 1..Len(h0) : ~IsStructural(h0[n]) => h1[n] = h0[n] /\ n \notin DOMAIN vis
    /\ \A i \in 1..Len(c.run.plog) : IsStructural(h0[c.run.plog[i].obj])
    /\ \A n \in DOMAIN vis :
        \A pos \in Positions(h1[vis[n]]) :
            IsAtomicRef(h0, ChildAt(h0, n, pos)) =>
                ChildAt(h1, vis[n], pos) = ChildAt(h0, n, pos)

\* two roots of one kind hold, at a position that is kept, two Maps that are
\* not deepEqual
MapsDifferAt(h, a, b, options) ==
    /\ a.t = "ref" /\ b.t = "ref" /\ IsStructural(h[a.v])
    /\ h[a.v].tag = h[b.v].tag
    /\ \E pos \in Positions(h[a.v]) \cap Positions(h[b.v]) :
        LET va == ChildAt(h, a.v, pos)
            vb == ChildAt(h, b.v, pos)
        IN  /\ h[a.v].tag = TagArray \/ ~shouldIgnoreKey(pos, <<>>, options)
            /\ va.t = "ref" /\ vb.t = "ref"
            /\ h[va.v].tag = TagMap /\ h[vb.v].tag = TagMap
            /\ ~deepEqual(h, va, vb)

\* C8: atomic built-ins appear in the result of deepOmit as the identical
\* reference, no rule is applied inside them, and two Maps that differ keep
\* deepEqualExcept false whatever ignoreKeys names.
C8_AtomicPassThrough ==
    pc = "done" =>
        /\ \A c \in OmitCases : AtomicPassThrough(c)
        /\ (call.op = "deepEqualExcept"
              /\ MapsDifferAt(input, call.a, call.b, call.options)) => ~out.eq

\* two Maps that differ only under the Map key "id", compared with "id" in
\* ignoreKeys
C8_Witness ==
    /\ pc = "done" /\ call.op = "deepEqualExcept"
    /\ "id" \in call.options.ignoreKeys
    /\ MapsDifferAt(input, call.a, call.b, call.options)
    /\ ~deepEqual(input, call.a, call.b)
    /\ ~out.eq

\* C9 as stated: no array or plain object reachable in the result is a node of
\* the input graph.
C9_NoSharedStructure_AsStated ==
    (pc = "done" /\ call.op = "deepOmit")
        => \A n \in ReachFrom(heap, out.res, TRUE) :
              IsStructural(heap[n]) => n > Len(input)

\* C9 (amended): no array or plain object reachable in the result through
\* array elements and plain-object properties is a node of the input graph;
\* what a shared atomic value (a Map) holds stays the input's.
C9_NoSharedStructure ==
    (pc = "done" /\ call.op = "deepOmit")
        => \A n \in ReachFrom(heap, out.res, FALSE) :
              IsStructural(heap[n]) => n > Len(input)

\* a result of several clones that shares a Map with the input
C9_Witness ==
    /\ pc = "done" /\ call.op = "deepOmit"
    /\ Cardinality(DOMAIN out.visited) >= 2
    /\ \E n \in ReachFrom(heap, out.res, FALSE) : n <= Len(input) /\ heap[n].tag = TagMap

\* the right object a left object was recorded with before event i
RecordedBefore(log, i, objA) ==
    {log[j].b : j \in {k \in 1..(i - 1) : log[k].ev = "set" /\ log[k].a = objA}}

\* each left object is recorded once and the visited map keeps that pairing
RecordedOnce(run) ==
    /\ \A i \in SetEvents(run.log) :
        /\ RecordedBefore(run.log, i, run.log[i].a) = {}
        /\ run.log[i].a \in DOMAIN run.visited
        /\ run.visited[run.log[i].a] = run.log[i].b

\* C10 as stated: a later encounter of a recorded left object yields true iff
\* the right operand is exactly the recorded reference.
C10_VisitedPairing_AsStated ==
    (pc = "done" /\ call.op = "deepEqual") =>
        /\ RecordedOnce(out)
        /\ \A i \in 1..Len(out.log) :
            \A objB \in RecordedBefore(out.log, i, out.log[i].a) :
                out.log[i].ev # "set" => (out.log[i].r = (out.log[i].b = objB))

\* C10 (amended): each left object is recorded once, with the right object of
\* its first encounter; a later encounter with a right operand other than the
\* left object itself yields true iff the right operand is the recorded one
\* (the identical pair is true by the fast path); so a = {self: a} differs
\* from a non-cyclic b = {self: c}, and two self-referencing objects that
\* agree elsewhere are equal.
C10_VisitedPairing ==
    (pc = "done" /\ call.op = "deepEqual") =>
        /\ RecordedOnce(out)
        /\ \A i \in 1..Len(out.log) :
            /\ out.log[i].ev = "hit" =>
                  /\ out.log[i].a # out.log[i].b
                  /\ RecordedBefore(out.log, i, out.log[i].a) = {out.log[i].c}
                  /\ out.log[i].r = (out.log[i].b = out.log[i].c)
            /\ out.log[i].ev = "fast" => out.log[i].a = out.log[i].b /\ out.log[i].r
        /\ \A pos \in {"#0", "self"} :
            LET va == ChildAt(input, call.a.v, pos)
                vb == ChildAt(input, call.b.v, pos)
            IN  /\ (va = call.a /\ vb.t = "ref" /\ vb \notin {call.a, call.b}) => ~out.eq
                /\ (/\ call.a # call.b /\ va = call.a /\ vb = call.b
                    /\ \A q \in Positions(input[call.a.v]) \ {pos} :
                          /\ ChildAt(input, call.a.v, q) = ChildAt(input, call.b.v, q)
                          /\ ChildAt(input, call.a.v, q).t = "number") => out.eq

\* a = {self: a, ...} compared with b = {self: c, ...}, c another object: the
\* second encounter of a meets c, not the recorded b
C10_Witness ==
    /\ pc = "done" /\ call.op = "deepEqual" /\ ~out.eq
    /\ GetProp(input[call.a.v], "self") = call.a
    /\ GetProp(input[call.b.v], "self") \notin {call.a, call.b}
    /\ \E i \in 1..Len(out.log) :
        /\ out.log[i].ev = "hit" /\ ~out.log[i].r
        /\ out.log[i].a = call.a.v /\ out.log[i].c = call.b.v

---------------------------------------------------------------------------
(* Properties of the comparison and the pruning by kind of value           *)

\* C11: isBuiltInObject(value, tag) returns false for an ordinary array
\* (tag "[object Array]"), so that arrays count as structural.
C11_ArrayNotBuiltIn ==
    (pc = "done" /\ call.op = "isBuiltInObject"
        /\ input[call.a.v].tag = TagArray) => ~out.builtIn

\* both operands of the deepEqual call made are objects with the tag given
BothTagged(tag) ==
    /\ pc = "done" /\ call.op = "deepEqual"
    /\ call.a.t = "ref" /\ call.b.t = "ref"
    /\ input[call.a.v].tag = tag /\ input[call.b.v].tag = tag

\* the entries of the right Map (Set) whose key is the key given, by identity
EntriesOf(node, key) == {j \in 1..Len(node.mkeys) : node.mkeys[j] = key}

\* C12: two Maps are equal iff they have the same size, every key of the
\* left is a key of the right by identity and the paired values are
\* deepEqual; two Sets are equal iff they have the same size and every
\* element of the left is an element of the right by identity, whatever the
\* insertion order; distinct-but-deep-equal keys or elements make them unequal.
C12_MapSetIdentity ==
    LET nodeA == input[call.a.v]
        nodeB == input[call.b.v]
    IN
    /\ BothTagged(TagMap) =>
          out.eq = /\ Len(nodeA.mkeys) = Len(nodeB.mkeys)
                   /\ \A i \in 1..Len(nodeA.mkeys) :
                        /\ EntriesOf(nodeB, nodeA.mkeys[i]) # {}
                        /\ \A j \in EntriesOf(nodeB, nodeA.mkeys[i]) :
                              deepEqual(input, nodeA.vals[i], nodeB.vals[j])
    /\ BothTagged(TagSet) =>
          out.eq = /\ Len(nodeA.mkeys) = Len(nodeB.mkeys)
                   /\ Range(nodeA.mkeys) \subseteq Range(nodeB.mkeys)

Reverse(s) == [i \in 1..Len(s) |-> s[Len(s) + 1 - i]]

\* heap h with the own properties of node n created in the opposite order
ReverseKeys(h, n) ==
    [h EXCEPT ![n].keys = Reverse(@), ![n].vals = Reverse(@)]

\* heap h with node n given another prototype
WithProto(h, n, proto) == [h EXCEPT ![n].proto = proto]

\* both operands of the deepEqual call made are plain objects
BothPlain ==
    /\ pc = "done" /\ call.op = "deepEqual"
    /\ call.a.t = "ref" /\ call.b.t = "ref"
    /\ IsPlainObject(input[call.a.v]) /\ IsPlainObject(input[call.b.v])

C14_PrimitiveBranch ==
    (pc = "done" /\ call.op = "deepEqual"
        /\ (call.a.t # "ref" \/ call.b.t # "ref"))
        => out.eq = \/ call.a.t = "NaN" /\ call.b.t = "NaN"
                    \/ call.a.t # "NaN" /\ call.a = call.b

\* deepEqual(NaN, NaN) returned true
C14_Witness ==
    /\ pc = "done" /\ call.op = "deepEqual"
    /\ call.a = NaN /\ call.b = NaN /\ out.eq

\* C15: deepEqual(v, v) is true for every value v: primitive, atomic, acyclic,
\* self-referencing or on a longer cycle.
C15_Reflexive ==
    (pc = "done" /\ call.op = "deepEqual" /\ call.a = call.b) => out.eq

\* v = {self: w}, w = {self: v} compared with itself
C15_Witness ==
    /\ pc = "done" /\ call.op = "deepEqual" /\ call.a = call.b /\ out.eq
    /\ call.a = Ref(1)
    /\ GetProp(input[1], "self") = Ref(2) /\ GetProp(input[2], "self") = Ref(1)

\* tags the classifier takes as atomic and deepEqual has no rule for
UnhandledAtomicTags == {TagError, TagArrayBuffer}

\* C16: two values of an atomic kind without a comparison rule of its own
\* (Error, ArrayBuffer) are deepEqual only when they are the identical
\* reference; their own properties are never compared.
C16_UnhandledAtomic ==
    (/\ pc = "done" /\ call.op = "deepEqual"
     /\ call.a.t = "ref" /\ call.b.t = "ref"
     /\ input[call.a.v].tag \in UnhandledAtomicTags
     /\ input[call.b.v].tag \in UnhandledAtomicTags)
        => out.eq = (call.a = call.b)

\* two distinct Errors with the same own properties: not equal
C16_Witness ==
    /\ pc = "done" /\ call.op = "deepEqual" /\ ~out.eq
    /\ call.a = Ref(1) /\ call.b = Ref(2)
    /\ input[1].tag = TagError
    /\ input[1] = input[2]
    /\ input[1].keys # <<>>

ThrewAtEnd(run) ==
    /\ run.thrown = PredicateError
    /\ run.res = NoValue
    /\ run.plog # <<>>
    /\ \A i \in 1..Len(run.plog) : run.plog[i].threw = (i = Len(run.plog))

\* the predicate "throwsBelowRoot" is bound to be called below the root: the
\* root holds, at a position that is kept, another plain object with a key to
\* judge
MustThrow(h, root, options) ==
    /\ options.ignoreKeyPredicate = "throwsBelowRoot"
    /\ IsStructuralRef(h, root)
    /\ \E pos \in Positions(h[root.v]) :
        /\ h[root.v].tag = TagArray \/ pos \notin options.ignoreKeys
        /\ LET child == ChildAt(h, root.v, pos)
           IN  /\ child.t = "ref" /\ child # root
               /\ IsPlainObject(h[child.v])
               /\ Range(h[child.v].keys) \ options.ignoreKeys # {}

\* C18: an exception thrown by ignoreKeyPredicate leaves deepOmit and
\* deepEqualExcept unchanged: the call throws that exception and returns no
\* value, no key is judged after the throw, the steps of deepEqualExcept that
\* follow are not run, and the input graph is what it was.
C18_PredicateThrows ==
    (pc = "done" /\ call.op \in {"deepOmit", "deepEqualExcept"}) =>
        /\ \A c \in OmitRuns :
              (\/ \E i \in 1..Len(c.run.plog) : c.run.plog[i].threw
               \/ MustThrow(c.before, c.root, call.options))
                  => ThrewAtEnd(c.run) /\ out.thrown = PredicateError
        /\ out.thrown # NoException =>
              /\ \A n \in 1..Len(input) : heap[n] = input[n]
              /\ call.op = "deepEqualExcept" =>
                    /\ out.cmp = EqStart
                    /\ ~out.eq
                    /\ out.prunedA.thrown # NoException =>
                          out.prunedB = OmitStart(out.prunedA.heap)

\* deepOmit of {part: {id: 1}, id: 1}: the predicate answered for "part", threw
\* for the "id" below it, and the "id" of the root was never judged
C18_Witness ==
    /\ pc = "done" /\ call.op = "deepOmit" /\ call.a = Ref(1)
    /\ out.thrown = PredicateError
    /\ Len(out.plog) = 2
    /\ out.plog[1].obj = 1 /\ out.plog[1].key = "part" /\ ~out.plog[1].threw
    /\ out.plog[2].path = <<"part">> /\ out.plog[2].threw
    /\ input[1].keys = <<"part", "id">>
    /\ Len(heap) > Len(input)

---------------------------------------------------------------------------
(* Properties of deepEqualExcept with a list of keys                        *)

\* the position is kept by a pruning with ignoreKeys K
Kept(node, pos, K) == node.tag = TagArray \/ pos \notin K

\* the pairs of objects found at the same kept position of a pair of arrays
\* or of plain objects
PairKids(h, p, K) ==
    LET nodeA == h[p[1]]
        nodeB == h[p[2]]
    IN  IF IsStructural(nodeA) /\ IsStructural(nodeB) /\ nodeA.tag = nodeB.tag
        THEN {<<ChildAt(h, p[1], pos).v, ChildAt(h, p[2], pos).v>> :
                pos \in {q \in Positions(nodeA) \cap Positions(nodeB) :
                            /\ Kept(nodeA, q, K)
                            /\ ChildAt(h, p[1], q).t = "ref"
                            /\ ChildAt(h, p[2], q).t = "ref"}}
        ELSE {}

RECURSIVE GrowPairs(_, _, _)
GrowPairs(h, S, K) ==
    LET T == S \cup UNION {PairKids(h, p, K) : p \in S}
    IN  IF T = S THEN S ELSE GrowPairs(h, T, K)

\* the pairs of objects that correspond when a and b are walked together
\* along the kept positions
Paired(h, a, b, K) == GrowPairs(h, {<<a.v, b.v>>}, K)

\* corresponding objects are one to one
OneToOne(S) == \A p \in S, q \in S : (p[1] = q[1]) <=> (p[2] = q[2])

\* a and b have the same shape and differ at most in what is stored under
\* the keys in K: arrays that correspond have the same length and plain
\* objects the same own keys, primitives at kept positions are the same,
\* atomic values that correspond are deepEqual, and cycles correspond to
\* cycles (in cyclic values corresponding objects are one to one)
SameShapeExcept(h, a, b, K) ==
    LET S == Paired(h, a, b, K)
    IN  /\ OneToOne(S) \/ (Acyclic(h, a) /\ Acyclic(h, b))
        /\ \A p \in S :
            LET nodeA == h[p[1]]
                nodeB == h[p[2]]
            IN  IF IsStructural(nodeA) \/ IsStructural(nodeB)
                THEN /\ IsStructural(nodeA) /\ IsStructural(nodeB)
                     /\ nodeA.tag = nodeB.tag
                     /\ Positions(nodeA) = Positions(nodeB)
                     /\ \A pos \in Positions(nodeA) :
                          Kept(nodeA, pos, K) =>
                            LET va == ChildAt(h, p[1], pos)
                                vb == ChildAt(h, p[2], pos)
                            IN  (va.t = "ref" /\ vb.t = "ref") \/ va = vb
                ELSE deepEqual(h, Ref(p[1]), Ref(p[2]))

\* at a kept position of two corresponding arrays or plain objects the values
\* differ and one of them is a primitive
DiffersAtKept(h, a, b, K) ==
    \E p \in Paired(h, a, b, K) :
        LET nodeA == h[p[1]]
            nodeB == h[p[2]]
        IN  /\ IsStructural(nodeA) /\ IsStructural(nodeB) /\ nodeA.tag = nodeB.tag
            /\ \E pos \in Positions(nodeA) \cap Positions(nodeB) :
                /\ Kept(nodeA, pos, K)
                /\ ChildAt(h, p[1], pos) # ChildAt(h, p[2], pos)
                /\ ChildAt(h, p[1], pos).t # "ref" \/ ChildAt(h, p[2], pos).t # "ref"

\* a deepEqualExcept call with ignoreKeys alone on two objects
ExceptByKeys ==
    /\ pc = "done" /\ call.op = "deepEqualExcept"
    /\ call.options.ignoreKeyPredicate = "none"
    /\ call.a.t = "ref" /\ call.b.t = "ref"

\* C19: deepEqualExcept(a, b, {ignoreKeys: K}) is true whenever a and b have
\* the same shape and differ only in the values under keys in K, at any depth,
\* inside arrays and in self-referencing objects; it is false as soon as a
\* value under a key not in K differs.
C19_ExceptIgnoresKeys ==
    ExceptByKeys =>
        /\ SameShapeExcept(input, call.a, call.b, call.options.ignoreKeys) => out.eq
        /\ DiffersAtKept(input, call.a, call.b, call.options.ignoreKeys) => ~out.eq

---------------------------------------------------------------------------
(* Properties of calls made while another call is running                   *)

\* the options with a predicate that answers as "reentrant" does and makes
\* no call
Quiet(options) ==
    IF options.ignoreKeyPredicate = "reentrant"
    THEN [options EXCEPT !.ignoreKeyPredicate = "idAnywhere"]
    ELSE options

\* what run r made is what the run alone made, clone for clone: the same keys
\* judged with the same paths and answers, the same nodes copied, the same end,
\* and every clone of r (in heap h1) is the clone of alone with the references
\* to clones renamed; base is the size of the heap alone started from
SameAsAlone(r, alone, h1, base) ==
    LET Rename(v) ==
            IF v.t = "ref" /\ v.v > base
            THEN Ref(r.visited[CHOOSE n \in DOMAIN alone.visited :
                                   alone.visited[n] = v.v])
            ELSE v
    IN  /\ r.plog = alone.plog
        /\ r.thrown = alone.thrown
        /\ DOMAIN r.visited = DOMAIN alone.visited
        /\ \A m, n \in DOMAIN r.visited : r.visited[m] = r.visited[n] => m = n
        /\ r.res = Rename(alone.res)
        /\ \A n \in DOMAIN alone.visited :
            LET cl == alone.heap[alone.visited[n]]
            IN  h1[r.visited[n]] =
                    [cl EXCEPT !.vals = [i \in 1..Len(cl.vals) |-> Rename(cl.vals[i])]]

\* C20: the visited map and the path belong to one top-level call: a deepOmit
\* called by the predicate while a pruning of the same objects is running, the
\* pruning that is running, and each of the two prunings of deepEqualExcept
\* return what they return when run alone.
C20_PrivateTraversalState ==
    (pc = "done" /\ call.op \in {"deepOmit", "deepEqualExcept"}) =>
        \A c \in OmitRuns :
            /\ SameAsAlone(c.run, deepOmit(input, c.root, Quiet(call.options)),
                           heap, Len(input))
            /\ \A i \in 1..Len(c.run.nested) :
                SameAsAlone(c.run.nested[i], deepOmit(input, Ref(1), NestedOptions),
                            heap, Len(input))

\* v = {self: v, id: 1} is pruned with a predicate that prunes v again each
\* time it is asked: the outer copy and the copies made
\* inside are distinct, each closed on itself
C20_Witness ==
    /\ pc = "done" /\ call.op = "deepOmit" /\ call.a = Ref(1)
    /\ call.options.ignoreKeyPredicate = "reentrant"
    /\ GetProp(input[1], "self") = Ref(1)
    /\ Len(out.nested) = 2
    /\ out.nested[1].res # out.res /\ out.nested[2].res # out.nested[1].res
    /\ heap[out.res.v].keys = <<"self">>
    /\ GetProp(heap[out.res.v], "self") = out.res
    /\ GetProp(heap[out.nested[1].res.v], "self") = out.nested[1].res

---------------------------------------------------------------------------
\* The event-sourced aggregate

\* the state after the handlers of the events i.. of a history ran in order
RECURSIVE HandledInOrder(_, _, _)
HandledInOrder(state, history, i) ==
    IF i > Len(history) THEN state
    ELSE HandledInOrder(handler(state, history[i]), history, i + 1)

\* validateEvent rejects the event, or the handlers map has no entry for it
Refused(agg, event) == ~validateEvent(agg, event) \/ event.type \notin handlers

\* C21: when apply is given an event that validateEvent rejects or that has no
\* handler, it returns an error result and state, version and pendingEvents
\* are what they were before the call.
C21_FailedApplyChangesNothing ==
    (aggCall.op = "apply" /\ Refused(aggCall.before, aggCall.event)) =>
        /\ ~aggCall.ok
        /\ aggregate.state = aggCall.before.state
        /\ aggregate.version = aggCall.before.version
        /\ aggregate.pendingEvents = aggCall.before.pendingEvents

\* a ValidatingAggregate with a pending event and version 1 is given
\* TestEventInvalid
C21_Witness ==
    /\ aggCall.op = "apply" /\ ~aggCall.ok
    /\ aggregate.class = "ValidatingAggregate"
    /\ aggCall.event.type = "TestEventInvalid"
    /\ aggregate.version = 1 /\ Len(aggregate.pendingEvents) = 1

\* C22: with autoVersionBump a successful apply of a new event adds 1 to version
\* and appends that event to pendingEvents, so that a fresh aggregate that was
\* only applied to has version = number of events applied; without
\* autoVersionBump apply leaves version alone and version counts the calls of
\* bumpVersion.
C22_Versioning ==
    /\ (aggCall.op = "apply" /\ aggCall.ok) =>
        /\ aggregate.pendingEvents =
                Append(aggCall.before.pendingEvents, aggCall.event)
        /\ aggregate.version =
                aggCall.before.version + (IF aggregate.autoVersionBump THEN 1 ELSE 0)
    /\ aggCall.op = "bumpVersion" => aggregate.version = aggCall.before.version + 1
    /\ ~aggTrace.replayed =>
        aggregate.version =
            aggTrace.bumps + (IF aggregate.autoVersionBump THEN aggTrace.applies ELSE 0)

\* two events were applied to an aggregate without autoVersionBump, then
\* bumpVersion was called once
C22_Witness ==
    /\ ~aggregate.autoVersionBump /\ ~aggTrace.replayed
    /\ aggTrace.applies = 2 /\ aggTrace.bumps = 1
    /\ aggCall.op = "bumpVersion"
    /\ aggregate.version = 1 /\ Len(aggregate.pendingEvents) = 2

\* C23: a successful loadFromHistory(history) leaves the state the handlers
\* give when run in history order, sets version to history.length whatever it
\* was, and leaves pendingEvents unchanged.
C23_Replay ==
    (aggCall.op = "loadFromHistory" /\ aggCall.ok) =>
        /\ aggregate.state = HandledInOrder(aggCall.before.state, aggCall.history, 1)
        /\ aggregate.version = Len(aggCall.history)
        /\ aggregate.pendingEvents = aggCall.before.pendingEvents

\* an aggregate of version 3 with a pending event loads
\* [TestEventUpdated 1, TestEventUpdated 2]
C23_Witness ==
    /\ aggCall.op = "loadFromHistory" /\ aggCall.ok
    /\ aggCall.before.version = 3 /\ Len(aggCall.before.pendingEvents) = 1
    /\ aggCall.history = <<DomainEvent("TestEventUpdated", 1),
                           DomainEvent("TestEventUpdated", 2)>>
    /\ aggregate.state.value = 2 /\ aggregate.version = 2

\* C27: when loadFromHistory returns an error result, state and version are
\* what they were before the call.
C27_FailedReplayChangesNothing ==
    (aggCall.op = "loadFromHistory" /\ ~aggCall.ok) =>
        /\ aggregate.state = aggCall.before.state
        /\ aggregate.version = aggCall.before.version

---------------------------------------------------------------------------
\* The event bus

\* the number of events of a type in a list
CountOf(events, type) == Cardinality({i \in 1..Len(events) : events[i] = type})

\* C24: at every publish, a handler that was subscribed and whose unsubscribe
\* function was never called is invoked once for each event of its type, and
\* a handler whose unsubscribe function was called is not invoked, whatever
\* subscribe and unsubscribe calls came before.
C24_OnlyOwnHandler ==
    \A i \in 1..Len(published.subs) :
        LET u == published.subs[i]
        IN  published.invoked[u.handler] =
                IF u.calls = 0 THEN CountOf(published.events, u.type) ELSE 0

---------------------------------------------------------------------------
\* Routes of the result

MaxRoute == 3

\* the keys and index segments a route of heap h can be made of
RouteSegments(h) ==
    Range(IndexSegments) \cup UNION {Range(h[n].keys) : n \in 1..Len(h)}

\* the routes of up to MaxRoute segments
Routes(h) == UNION {[1..n -> RouteSegments(h)] : n \in 0..MaxRoute}

\* no plain object that a route leads to from v has a key that the rules
\* exclude for that route
RedactedOnEveryRoute(h, v, options) ==
    \A p \in Routes(h) :
        LET at == Walk(h, v, p)
        IN  (at.t = "ref" /\ IsPlainObject(h[at.v])) =>
                \A k \in Range(h[at.v].keys) : ~shouldIgnoreKey(k, p, options)

\* C25: in the result of deepOmit, no route p from the root leads to a plain
\* object with a key k that is in ignoreKeys or for which
\* ignoreKeyPredicate(k, p) is true, also when a source object is reached
\* through several routes that the predicate answers differently for.
C25_RedactedOnEveryRoute ==
    pc = "done" =>
        \A c \in OmitCases : RedactedOnEveryRoute(heap, c.run.res, call.options)

---------------------------------------------------------------------------
\* Objects that no built-in constructor made

\* the prototypes of object literals, of Object.create(null), of instances of
\* user-defined classes and of Object.create(a plain object)
UserMadePrototypes ==
    {"Object.prototype", "null", "Foo.prototype", UserMapPrototype, PlainPrototype}

UserMade(node) == node.tag = TagObject /\ node.proto \in UserMadePrototypes

\* C26: isBuiltInObject is false for every "[object Object]" object that no
\* built-in constructor made (literal, null prototype, user-defined class,
\* class named like a global, plain-object prototype), and deepOmit makes a
\* copy of such an object.
C26_UserMadeNotBuiltIn ==
    /\ (pc = "done" /\ call.op = "isBuiltInObject" /\ UserMade(input[call.a.v]))
            => ~out.builtIn
    /\ (pc = "done" /\ call.op = "deepOmit" /\ call.a.t = "ref"
            /\ UserMade(input[call.a.v]) /\ ~Aborted(out))
            => out.res.t = "ref" /\ out.res.v > Len(input)

---------------------------------------------------------------------------
\* Laws of deepEqual

\* C28: deepEqual(a, b) = deepEqual(b, a) for all values, also when one side
\* holds one object at several positions where the other holds distinct equal
\* objects, and when one side is cyclic.
C28_Symmetric ==
    (pc = "done" /\ call.op = "deepEqual" /\ ~out.overflow) =>
        LET back == deepEqualRun(input, call.b, call.a)
        IN  ~back.overflow => out.eq = back.eq

\* two values stand in the relation of the pairs a run visited: the same
\* reference, a left object with the right object it was recorded with, or two
\* primitives that are strictly equal or both NaN
Related(run, va, vb) ==
    IF va.t = "ref" /\ vb.t = "ref"
    THEN va = vb \/ (va.v \in DOMAIN run.visited /\ run.visited[va.v] = vb.v)
    ELSE StrictEq(va, vb) \/ (NumberIsNaN(va) /\ NumberIsNaN(vb))

\* the pairs a run recorded are a bisimulation on heap h
Bisimulation(h, run) ==
    \A objA \in DOMAIN run.visited :
        LET nodeA == h[objA]
            nodeB == h[run.visited[objA]]
        IN  /\ nodeA.tag = nodeB.tag
            /\ nodeA.tag = TagArray =>
                /\ Len(nodeA.vals) = Len(nodeB.vals)
                /\ \A i \in 1..Len(nodeA.vals) :
                        Related(run, nodeA.vals[i], nodeB.vals[i])
            /\ IsPlainObject(nodeA) =>
                /\ Range(nodeA.keys) = Range(nodeB.keys)
                /\ \A k \in Range(nodeA.keys) :
                        Related(run, GetProp(nodeA, k), GetProp(nodeB, k))

====
